---- MODULE Spec2Model ----
(***************************************************************************)
(* The Mach-O backend of faerie (src/src/mach.rs): the symbol table with   *)
(* its string interner, the segment and relocation builders, the layout    *)
(* pass and the emission of the object file through a BufWriter.           *)
(*                                                                         *)
(* Names are sequences of bytes (<<102>> is "f").  Payloads are opaque to  *)
(* the backend, so a payload is modelled by its length.                    *)
(***************************************************************************)
EXTENDS Integers, Sequences, FiniteSets, TLC

\* ------------------------------------------------------------------ bounds
\* Most entries (definitions, imports and links together) of an artifact.
MaxItems == 4
\* Largest `offset` handed to SymbolTable::insert by a direct caller.
MaxOffset == 1
\* Longest payload of a definition, and largest `at` of a link.
MaxPayload == 2
MaxAt == 2

\* ------------------------------------------------------------- input sets
\* "", "f", "gh"
Names == { <<>>, <<102>>, <<103, 104>> }

\* ------------------------------------------------------------- primitives
\* Option::None for the Option<usize> values of the code.
None == -1

RECURSIVE BitOr(_, _)
BitOr(a, b) ==
  IF a = 0 THEN b
  ELSE IF b = 0 THEN a
  ELSE (IF (a % 2) + (b % 2) > 0 THEN 1 ELSE 0) + 2 * BitOr(a \div 2, b \div 2)

RECURSIVE BitAnd(_, _)
BitAnd(a, b) ==
  IF a = 0 \/ b = 0 THEN 0
  ELSE ((a % 2) * (b % 2)) + 2 * BitAnd(a \div 2, b \div 2)

\* !x on a u8
BitNot8(x) == 255 - x

\* x << k on a u32 whose shifted value stays below 2^31
Shl(x, k) == x * (2 ^ k)

RECURSIVE SumSeq(_)
SumSeq(s) == IF s = <<>> THEN 0 ELSE Head(s) + SumSeq(Tail(s))

\* ------------------------------------------------- string_interner, OrderMap
\* StringInterner::get: the symbol (slot number, from 0) of an interned string
StrGet(strtable, s) ==
  IF \E i \in 1..Len(strtable) : strtable[i] = s
  THEN (CHOOSE i \in 1..Len(strtable) : strtable[i] = s) - 1
  ELSE None

\* StringInterner::get_or_intern: the slot of s, appended when it is new
StrGetOrIntern(strtable, s) ==
  IF StrGet(strtable, s) # None
  THEN [table |-> strtable, sym |-> StrGet(strtable, s)]
  ELSE [table |-> Append(strtable, s), sym |-> Len(strtable)]

OMHas(m, k) == \E i \in 1..Len(m) : m[i].key = k
OMPos(m, k) == CHOOSE i \in 1..Len(m) : m[i].key = k

\* OrderMap::insert: a new key is appended, an old key keeps its position
OMInsert(m, k, v) ==
  IF OMHas(m, k) THEN [m EXCEPT ![OMPos(m, k)].value = v]
  ELSE Append(m, [key |-> k, value |-> v])

\* ------------------------------------------------------------ SymbolBuilder
N_UNDF == 0
N_EXT == 1
N_SECT == 14
NO_SECT == 0

SymbolBuilder_new(name) ==
  [name |-> name, section |-> None, global |-> FALSE, import |-> FALSE, offset |-> 0]

\* SymbolBuilder_create with n_sect left as the section index, not its ordinal
SymbolBuilder_create_SectIndex(b) ==
  LET t0 == IF b.global THEN BitOr(N_UNDF, N_EXT) ELSE BitAnd(N_UNDF, BitNot8(N_EXT))
      t1 == IF b.section # None THEN BitOr(t0, N_SECT) ELSE t0
      s1 == IF b.section # None THEN b.section ELSE 0
  IN  IF b.import
      THEN [n_strx |-> b.name, n_type |-> N_EXT, n_sect |-> NO_SECT, n_desc |-> 0,
            n_value |-> 0]
      ELSE [n_strx |-> b.name, n_type |-> BitOr(t1, N_SECT), n_sect |-> s1,
            n_desc |-> 0, n_value |-> b.offset]

SymbolBuilder_create(b) ==
  LET t0 == IF b.global THEN BitOr(N_UNDF, N_EXT) ELSE BitAnd(N_UNDF, BitNot8(N_EXT))
      t1 == IF b.section # None THEN BitOr(t0, N_SECT) ELSE t0
      s1 == IF b.section # None THEN b.section + 1 ELSE 0
  IN  IF b.import
      THEN [n_strx |-> b.name, n_type |-> N_EXT, n_sect |-> NO_SECT, n_desc |-> 0,
            n_value |-> 0]
      ELSE [n_strx |-> b.name, n_type |-> BitOr(t1, N_SECT), n_sect |-> s1,
            n_desc |-> 0, n_value |-> b.offset]

\* -------------------------------------------------------------- SymbolTable
Undefined == [tag |-> "Undefined"]
Defined(section, offset, global) ==
  [tag |-> "Defined", section |-> section, offset |-> offset, global |-> global]

SymbolTable_new ==
  [symbols |-> <<>>, strtable |-> << <<>> >>, indexes |-> <<>>, strtable_size |-> 1]

SymbolTable_len(st) == Len(st.symbols)

sizeof_strtable(st) == st.strtable_size

SymbolTable_offset(st, symbol_name) ==
  LET idx == StrGet(st.strtable, symbol_name)
  IN  IF idx = None THEN None
      ELSE IF ~OMHas(st.symbols, idx) THEN None
      ELSE st.symbols[OMPos(st.symbols, idx)].value.offset

SymbolTable_index(st, symbol_name) ==
  LET idx == StrGet(st.strtable, symbol_name)
  IN  IF idx = None THEN None
      ELSE IF ~OMHas(st.indexes, idx) THEN None
      ELSE st.indexes[OMPos(st.indexes, idx)].value

NewBuilder(strtable_size, kind) ==
  IF kind.tag = "Undefined"
  THEN [SymbolBuilder_new(strtable_size) EXCEPT !.global = TRUE, !.import = TRUE]
  ELSE [SymbolBuilder_new(strtable_size) EXCEPT
          !.global = kind.global, !.offset = kind.offset, !.section = kind.section]

\* SymbolTable_insert with the '_' prefix left out of name_len
SymbolTable_insert_NoPrefix(st, symbol_name, kind) ==
  LET name_len   == Len(symbol_name) + 1
      last_index == Len(st.strtable)
      interned   == StrGetOrIntern(st.strtable, symbol_name)
      name_index == interned.sym
      symbols2   == OMInsert(st.symbols, name_index, NewBuilder(st.strtable_size, kind))
  IN  IF name_index = last_index
      THEN [symbols       |-> symbols2,
            strtable      |-> interned.table,
            indexes       |-> OMInsert(st.indexes, name_index, Len(symbols2) - 1),
            strtable_size |-> st.strtable_size + name_len]
      ELSE [st EXCEPT !.strtable = interned.table]

\* SymbolTable_insert with the builder stored whether or not the name is new
SymbolTable_insert_Overwrite(st, symbol_name, kind) ==
  LET name_len   == Len(symbol_name) + 1 + 1
      last_index == Len(st.strtable)
      interned   == StrGetOrIntern(st.strtable, symbol_name)
      name_index == interned.sym
      symbols2   == OMInsert(st.symbols, name_index, NewBuilder(st.strtable_size, kind))
  IN  IF name_index = last_index
      THEN [symbols       |-> symbols2,
            strtable      |-> interned.table,
            indexes       |-> OMInsert(st.indexes, name_index, Len(symbols2) - 1),
            strtable_size |-> st.strtable_size + name_len]
      ELSE [st EXCEPT !.strtable = interned.table,
                      !.symbols = IF OMHas(st.symbols, name_index) THEN symbols2 ELSE @]

SymbolTable_insert(st, symbol_name, kind) ==
  LET name_len   == Len(symbol_name) + 1 + 1
      last_index == Len(st.strtable)
      interned   == StrGetOrIntern(st.strtable, symbol_name)
      name_index == interned.sym
      symbols2   == OMInsert(st.symbols, name_index, NewBuilder(st.strtable_size, kind))
  IN  IF name_index = last_index
      THEN [symbols       |-> symbols2,
            strtable      |-> interned.table,
            indexes       |-> OMInsert(st.indexes, name_index, Len(symbols2) - 1),
            strtable_size |-> st.strtable_size + name_len]
      ELSE [st EXCEPT !.strtable = interned.table]

\* The string-table step of Mach::write: a NUL, then '_' name NUL for every
\* interned string after slot 0.
RECURSIVE StrtabEntries(_)
StrtabEntries(strings) ==
  IF strings = <<>> THEN <<>>
  ELSE <<95>> \o Head(strings) \o <<0>> \o StrtabEntries(Tail(strings))

StrtabBytes(st) == <<0>> \o StrtabEntries(Tail(st.strtable))

\* The symbol-table step of Mach::write: one Nlist per entry of `symbols`
NlistSeq(st) ==
  [i \in 1..Len(st.symbols) |-> SymbolBuilder_create(st.symbols[i].value)]

\* ---------------------------------------------------------------- Ctx sizes
\* Ctx::from(target): the container width
Ctx_from(target) == [is64 |-> target \in {"X86_64", "ARM64"}]

Header_size_with(ctx) == IF ctx.is64 THEN 32 ELSE 28
Segment_size_with(ctx) == IF ctx.is64 THEN 72 ELSE 56
Section_size_with(ctx) == IF ctx.is64 THEN 80 ELSE 68
Nlist_size_with(ctx) == IF ctx.is64 THEN 16 ELSE 12
SIZEOF_SYMTAB_COMMAND == 24
SIZEOF_RELOCATION_INFO == 8

\* -------------------------------------------------------- RelocationBuilder
X86_64_RELOC_SIGNED == 1
X86_64_RELOC_BRANCH == 2
X86_64_RELOC_GOT_LOAD == 3

RelocationBuilder_new(symbol, relocation_offset, r_type) ==
  [symbol |-> symbol, relocation_offset |-> relocation_offset, absolute |-> FALSE,
   r_type |-> r_type]

\* RelocationBuilder_create with r_type one bit low
RelocationBuilder_create_TypeShift(b) ==
  LET r_symbolnum == b.symbol
      r_pcrel     == Shl(IF b.absolute THEN 0 ELSE 1, 24)
      r_length    == Shl(IF b.absolute THEN 3 ELSE 2, 25)
      r_extern    == Shl(1, 27)
      r_type      == Shl(b.r_type, 27)
  IN  [r_address |-> b.relocation_offset,
       r_info    |-> BitOr(BitOr(BitOr(BitOr(r_symbolnum, r_pcrel), r_length), r_extern),
                           r_type)]

RelocationBuilder_create(b) ==
  LET r_symbolnum == b.symbol
      r_pcrel     == Shl(IF b.absolute THEN 0 ELSE 1, 24)
      r_length    == Shl(IF b.absolute THEN 3 ELSE 2, 25)
      r_extern    == Shl(1, 27)
      r_type      == Shl(b.r_type, 28)
  IN  [r_address |-> b.relocation_offset,
       r_info    |-> BitOr(BitOr(BitOr(BitOr(r_symbolnum, r_pcrel), r_length), r_extern),
                           r_type)]

\* the match on link.to.decl of build_relocations
DeclRelocType(decl) ==
  CASE decl = "Function"       -> X86_64_RELOC_BRANCH
    [] decl = "Data"           -> X86_64_RELOC_SIGNED
    [] decl = "CString"        -> X86_64_RELOC_SIGNED
    [] decl = "FunctionImport" -> X86_64_RELOC_BRANCH
    [] decl = "DataImport"     -> X86_64_RELOC_GOT_LOAD

\* text_relocations with a missing symbol replaced by ordinal 0 and offset 0
RECURSIVE text_relocations_DefaultOnMiss(_, _)
text_relocations_DefaultOnMiss(ls, st) ==
  IF ls = <<>> THEN <<>>
  ELSE LET link            == Head(ls)
           base_offset     == SymbolTable_offset(st, link.from)
           to_symbol_index == SymbolTable_index(st, link.to)
       IN  << RelocationBuilder_create(
                RelocationBuilder_new(
                  IF to_symbol_index = None THEN 0 ELSE to_symbol_index,
                  (IF base_offset = None THEN 0 ELSE base_offset) + link.at,
                  DeclRelocType(link.decl))) >>
           \o text_relocations_DefaultOnMiss(Tail(ls), st)

RECURSIVE text_relocations(_, _)
text_relocations(ls, st) ==
  IF ls = <<>> THEN <<>>
  ELSE LET link            == Head(ls)
           base_offset     == SymbolTable_offset(st, link.from)
           to_symbol_index == SymbolTable_index(st, link.to)
       IN  IF base_offset # None /\ to_symbol_index # None
           THEN << RelocationBuilder_create(
                     RelocationBuilder_new(to_symbol_index, base_offset + link.at,
                                           DeclRelocType(link.decl))) >>
                \o text_relocations(Tail(ls), st)
           ELSE text_relocations(Tail(ls), st)

build_relocations(ls, st) == << text_relocations(ls, st) >>

\* ------------------------------------------- SectionBuilder, SegmentBuilder
CODE_SECTION_INDEX == 0
DATA_SECTION_INDEX == 1
NSECTIONS == 2

SectionBuilder_new(sectname, segname, size) ==
  [addr |-> 0, align |-> 4, offset |-> 0, size |-> size, sectname |-> sectname,
   segname |-> segname]

SectionBuilder_create(b) ==
  [sectname |-> b.sectname, segname |-> b.segname, addr |-> b.addr, size |-> b.size,
   offset |-> b.offset, align |-> b.align, reloff |-> 0, nreloc |-> 0]

load_command_size(ctx) == Segment_size_with(ctx) + NSECTIONS * Section_size_with(ctx)

\* the loop of build_section over the definitions of one section
RECURSIVE build_section_loop(_, _, _, _, _)
build_section_loop(st, symbol_offset, local_size, section, defs) ==
  IF defs = <<>>
  THEN [symtab |-> st, symbol_offset |-> symbol_offset, local_size |-> local_size]
  ELSE LET def == Head(defs)
       IN  build_section_loop(
             SymbolTable_insert(st, def.name,
                                Defined(section, symbol_offset, def.prop.global)),
             symbol_offset + def.data, local_size + def.data, section, Tail(defs))

\* build_section with the file offset left where it was
build_section_OffsetKept(st, sectname, segname, offset, addr, symbol_offset, section, defs) ==
  LET r == build_section_loop(st, symbol_offset, 0, section, defs)
  IN  [symtab        |-> r.symtab,
       section       |-> [SectionBuilder_new(sectname, segname, r.local_size)
                            EXCEPT !.offset = offset, !.addr = addr],
       offset        |-> offset,
       addr          |-> addr + r.local_size,
       symbol_offset |-> r.symbol_offset]

build_section(st, sectname, segname, offset, addr, symbol_offset, section, defs) ==
  LET r == build_section_loop(st, symbol_offset, 0, section, defs)
  IN  [symtab        |-> r.symtab,
       section       |-> [SectionBuilder_new(sectname, segname, r.local_size)
                            EXCEPT !.offset = offset, !.addr = addr],
       offset        |-> offset + r.local_size,
       addr          |-> addr + r.local_size,
       symbol_offset |-> r.symbol_offset]

RECURSIVE insert_imports(_, _)
insert_imports(st, imps) ==
  IF imps = <<>> THEN st
  ELSE insert_imports(SymbolTable_insert(st, Head(imps), Undefined), Tail(imps))

SegmentBuilder_new(imps, code, data, st, ctx) ==
  LET text == build_section(st, "__text", "__TEXT", Header_size_with(ctx), 0, 0,
                            CODE_SECTION_INDEX, code)
      dat  == build_section(text.symtab, "__data", "__DATA", text.offset, text.addr,
                            text.symbol_offset, DATA_SECTION_INDEX, data)
  IN  [symtab  |-> insert_imports(dat.symtab, imps),
       segment |-> [size |-> dat.addr, sections |-> <<text.section, dat.section>>,
                    offset |-> dat.offset]]

\* ------------------------------------------------------------------- state
VARIABLES
  definitions, \* artifact.definitions(): [name, data (payload length), prop]
  imports,     \* artifact.imports(): names
  links,       \* artifact.links(): [from, to, decl, at]
  target,      \* artifact.target, "Unknown" until Mach::new reads it
  pc,          \* where the emitter is: "artifact", "new", then the step of write
  symtab,      \* the SymbolTable
  mach,        \* the other fields of Mach: ctx, segment, relocations, code, data
  lc,          \* the header values and load commands computed by write
  file,        \* the BufWriter: bytes it holds, bytes the sink has taken
  debug,       \* whether the debug! lines (and their seeks) are enabled
  sinkBroken,  \* the sink fails every write from now on
  sinkFailed,  \* a write to the sink has failed
  result,      \* what write returned: "none", "Ok", "Err"
  seen,        \* names handed to insert so far, in order of their first call
  lastCall     \* the last direct insert call

artifactVars == <<definitions, imports, links, target>>
writeVars == <<lc, file, debug, sinkFailed, result>>
callVars == <<seen, lastCall>>
vars == <<definitions, imports, links, target, pc, symtab, mach, lc, file, debug,
          sinkBroken, sinkFailed, result, seen, lastCall>>

SymbolTypes ==
  {Undefined} \cup
  {Defined(s, o, g) : s \in {0, 1}, o \in 0..MaxOffset, g \in BOOLEAN}

Range(s) == {s[i] : i \in 1..Len(s)}

\* the names that have a symbol
SymbolNames(st) == {st.strtable[st.symbols[i].key + 1] : i \in 1..Len(st.symbols)}

Definition(name, data, function, global) ==
  [name |-> name, data |-> data, prop |-> [function |-> function, global |-> global]]

Link(from, to, decl, at) == [from |-> from, to |-> to, decl |-> decl, at |-> at]

\* The definitions an artifact is built from: both names as a function and as
\* data, global and local, with an empty payload, and with the empty name.
DefPool ==
  { Definition(<<102>>, MaxPayload, TRUE, TRUE),
    Definition(<<102>>, 1, FALSE, FALSE),
    Definition(<<103, 104>>, 0, TRUE, FALSE),
    Definition(<<103, 104>>, MaxPayload, FALSE, TRUE),
    Definition(<<>>, 1, FALSE, TRUE) }

ImportPool == { <<102>>, <<103, 104>> }

\* The links an artifact is built from: every declaration kind, both names and
\* the empty name at either end, at the start of the payload and past it.
LinkPool ==
  { Link(<<102>>, <<103, 104>>, "FunctionImport", MaxAt),
    Link(<<102>>, <<102>>, "Function", 0),
    Link(<<103, 104>>, <<102>>, "Data", 0),
    Link(<<102>>, <<103, 104>>, "DataImport", 1),
    Link(<<103, 104>>, <<103, 104>>, "CString", MaxAt),
    Link(<<>>, <<102>>, "Function", 0),
    Link(<<103, 104>>, <<>>, "Data", 0) }

Targets == {"X86_64", "X86"}

NoMach ==
  [ctx |-> Ctx_from("Unknown"), segment |-> [size |-> 0, sections |-> <<>>, offset |-> 0],
   relocations |-> <<>>, code |-> <<>>, data |-> <<>>]

NoLc ==
  [sizeofcmds |-> 0, ncmds |-> 0, sections |-> <<>>, nsects |-> 0, filesize |-> 0,
   fileoff |-> 0, cmdsize |-> 0, nsyms |-> 0, symoff |-> 0, stroff |-> 0, strsize |-> 0]

Init ==
  /\ definitions = <<>>
  /\ imports = <<>>
  /\ links = <<>>
  /\ target = "Unknown"
  /\ pc = "artifact"
  /\ symtab = SymbolTable_new
  /\ mach = NoMach
  /\ lc = NoLc
  /\ file = [buf |-> 0, sink |-> 0]
  /\ debug = FALSE
  /\ sinkBroken = FALSE
  /\ sinkFailed = FALSE
  /\ result = "none"
  /\ seen = <<>>
  /\ lastCall = [name |-> <<>>, kind |-> Undefined, known |-> FALSE, calls |-> 0]

\* a caller of the public SymbolTable::insert
InsertCall ==
  \E name \in Names, kind \in SymbolTypes :
    /\ pc = "artifact"
    /\ symtab' = SymbolTable_insert(symtab, name, kind)
    /\ seen' = IF name \in Range(seen) THEN seen ELSE Append(seen, name)
    /\ lastCall' = [name |-> name, kind |-> kind,
                    known |-> name \in SymbolNames(symtab), calls |-> 1]
    /\ UNCHANGED <<artifactVars, pc, mach, writeVars, sinkBroken>>

SymtabNext == InsertCall

SymtabSpec == Init /\ [][SymtabNext]_vars

\* ------------------------------------------------- the artifact (upstream)
ArtifactSize == Len(definitions) + Len(imports) + Len(links)

Define ==
  \E def \in DefPool :
    /\ pc = "artifact" /\ imports = <<>> /\ links = <<>>
    /\ ArtifactSize < MaxItems
    /\ definitions' = Append(definitions, def)
    /\ UNCHANGED <<imports, links, target, pc, symtab, mach, writeVars, sinkBroken,
                   callVars>>

Import ==
  \E name \in ImportPool :
    /\ pc = "artifact" /\ links = <<>>
    /\ ArtifactSize < MaxItems
    /\ imports' = Append(imports, name)
    /\ UNCHANGED <<definitions, links, target, pc, symtab, mach, writeVars, sinkBroken,
                   callVars>>

AddLink ==
  \E link \in LinkPool :
    /\ pc = "artifact"
    /\ ArtifactSize < MaxItems
    /\ links' = Append(links, link)
    /\ UNCHANGED <<definitions, imports, target, pc, symtab, mach, writeVars,
                   sinkBroken, callVars>>

\* ---------------------------------------------------------------- Mach::new
\* artifact.definitions().partition(|def| def.prop.function)
IsFunction(def) == def.prop.function
IsData(def) == ~def.prop.function

Mach_new(defs, imps, ls, tgt) ==
  LET ctx  == Ctx_from(tgt)
      code == SelectSeq(defs, IsFunction)
      data == SelectSeq(defs, IsData)
      sb   == SegmentBuilder_new(imps, code, data, SymbolTable_new, ctx)
  IN  [symtab |-> sb.symtab,
       mach   |-> [ctx |-> ctx, segment |-> sb.segment,
                   relocations |-> build_relocations(ls, sb.symtab),
                   code |-> code, data |-> data]]

\* Mach::new(&artifact), for an artifact of either container width
MachNew ==
  /\ pc = "artifact"
  /\ \E tgt \in Targets :
       /\ target' = tgt
       /\ LET m == Mach_new(definitions, imports, links, tgt)
          IN  symtab' = m.symtab /\ mach' = m.mach
  /\ pc' = "new"
  /\ UNCHANGED <<definitions, imports, links, writeVars, sinkBroken, callVars>>

\* ------------------------------------------------------- BufWriter over T
\* std's default BufWriter capacity
BufCap == 8192

\* BufWriter::flush_buf: hand the held bytes to the sink.  The sink takes a
\* write whole or fails it; a sink that accepts part of a write is not modelled.
flush_buf(f, broken) ==
  IF f.buf = 0 THEN [file |-> f, ok |-> TRUE]
  ELSE IF broken THEN [file |-> f, ok |-> FALSE]
  ELSE [file |-> [buf |-> 0, sink |-> f.sink + f.buf], ok |-> TRUE]

\* BufWriter::write of n bytes: flush when they do not fit, hand a buffer of at
\* least the capacity straight to the sink, hold a smaller one
BufWriter_write(f, n, broken) ==
  LET fl == IF f.buf + n > BufCap THEN flush_buf(f, broken) ELSE [file |-> f, ok |-> TRUE]
  IN  IF ~fl.ok THEN fl
      ELSE IF n >= BufCap
      THEN IF broken THEN [file |-> fl.file, ok |-> FALSE]
           ELSE [file |-> [fl.file EXCEPT !.sink = @ + n], ok |-> TRUE]
      ELSE [file |-> [fl.file EXCEPT !.buf = @ + n], ok |-> TRUE]

\* consecutive writes, each followed by `?`
RECURSIVE write_each(_, _, _)
write_each(f, sizes, broken) ==
  IF sizes = <<>> THEN [file |-> f, ok |-> TRUE]
  ELSE LET w == BufWriter_write(f, Head(sizes), broken)
       IN  IF w.ok THEN write_each(w.file, Tail(sizes), broken) ELSE w

\* debug!("SEEK: ...", file.seek(Current(0))?): evaluated when debug logging is
\* on; BufWriter::seek flushes first
debug_seek(w, dbg, broken) == IF w.ok /\ dbg THEN flush_buf(w.file, broken) ELSE w

\* Drop for BufWriter: flush, the error ignored
BufWriter_drop(f, broken) == flush_buf(f, broken).file

\* ------------------------------------------------- Mach::write: the layout
\* the loop that marshals the two section headers
RECURSIVE raw_sections(_, _, _, _, _)
raw_sections(idx, sections, relocations, section_offset, relocation_offset) ==
  IF idx >= Len(sections) THEN <<>>
  ELSE LET created == [SectionBuilder_create(sections[idx + 1])
                         EXCEPT !.offset = section_offset]
           nrelocs == IF idx < Len(relocations) THEN Len(relocations[idx + 1]) ELSE 0
           section == IF idx < Len(relocations)
                      THEN [created EXCEPT !.nreloc = nrelocs, !.reloff = relocation_offset]
                      ELSE created
       IN  <<section>> \o
           raw_sections(idx + 1, sections, relocations, section_offset + created.size,
                        relocation_offset + nrelocs * SIZEOF_RELOCATION_INFO)

Mach_layout(m, st) ==
  LET segment_load_command_size == load_command_size(m.ctx)
      sizeof_load_commands      == segment_load_command_size + SIZEOF_SYMTAB_COMMAND
      symtable_offset           == m.segment.offset + sizeof_load_commands
      strtable_offset           == symtable_offset
                                     + SymbolTable_len(st) * Nlist_size_with(m.ctx)
      relocation_offset_start   == strtable_offset + sizeof_strtable(st)
      first_section_offset      == Header_size_with(m.ctx) + sizeof_load_commands
      sections == raw_sections(0, m.segment.sections, m.relocations,
                               first_section_offset, relocation_offset_start)
  IN  [sizeofcmds |-> sizeof_load_commands,
       ncmds      |-> 2,
       sections   |-> sections,
       nsects     |-> Len(m.segment.sections),
       filesize   |-> m.segment.size,
       fileoff    |-> first_section_offset,
       \* Segment::new: the command and the section headers it is given
       cmdsize    |-> Segment_size_with(m.ctx) + Len(sections) * Section_size_with(m.ctx),
       nsyms      |-> SymbolTable_len(st),
       symoff     |-> symtable_offset,
       stroff     |-> strtable_offset,
       strsize    |-> sizeof_strtable(st)]

\* the sizes of the writes of each step
CodeWrites(m) == [i \in 1..Len(m.code) |-> m.code[i].data]
DataWrites(m) == [i \in 1..Len(m.data) |-> m.data[i].data]
SymtableWrites(m, st) == [i \in 1..Len(NlistSeq(st)) |-> Nlist_size_with(m.ctx)]

RECURSIVE StringWrites(_)
StringWrites(strings) ==
  IF strings = <<>> THEN <<>>
  ELSE <<1, Len(Head(strings)), 1>> \o StringWrites(Tail(strings))

\* StrtableWrites without the leading NUL
StrtableWrites_NoLeadingNul(st) == StringWrites(Tail(st.strtable))

StrtableWrites(st) == <<1>> \o StringWrites(Tail(st.strtable))

RECURSIVE RelocationWrites(_)
RelocationWrites(relocations) ==
  IF relocations = <<>> THEN <<>>
  ELSE [i \in 1..Len(Head(relocations)) |-> SIZEOF_RELOCATION_INFO]
       \o RelocationWrites(Tail(relocations))

\* ------------------------------------------------- Mach::write: the steps
\* BufWriter::new and the layout pass, with its assert_eq!
WriteBegin ==
  /\ pc = "new"
  /\ lc' = Mach_layout(mach, symtab)
  /\ pc' = IF lc'.symoff = mach.segment.offset + lc'.cmdsize + SIZEOF_SYMTAB_COMMAND
           THEN "header" ELSE "panicked"
  /\ file' = [buf |-> 0, sink |-> 0]
  /\ UNCHANGED <<artifactVars, symtab, mach, debug, sinkBroken, sinkFailed, result,
                 callVars>>

\* one region of the file: its writes, the debug seek after it, and on a failed
\* write the return of the error (which drops the BufWriter)
WriteStep(at, sizes, next) ==
  LET w == debug_seek(write_each(file, sizes, sinkBroken), debug, sinkBroken)
  IN  /\ pc = at
      /\ IF w.ok
         THEN /\ file' = w.file
              /\ pc' = next
              /\ UNCHANGED <<sinkFailed, result>>
         ELSE /\ file' = BufWriter_drop(w.file, sinkBroken)
              /\ pc' = "returned"
              /\ sinkFailed' = TRUE
              /\ result' = "Err"
      /\ UNCHANGED <<artifactVars, symtab, mach, lc, debug, sinkBroken, callVars>>

WriteHeader == WriteStep("header", <<Header_size_with(mach.ctx)>>, "loadcmds")

WriteLoadCommands ==
  WriteStep("loadcmds",
            <<Segment_size_with(mach.ctx), Len(lc.sections) * Section_size_with(mach.ctx),
              SIZEOF_SYMTAB_COMMAND>>,
            "code")

WriteCode == WriteStep("code", CodeWrites(mach), "data")

WriteData == WriteStep("data", DataWrites(mach), "symtable")

WriteSymtable == WriteStep("symtable", SymtableWrites(mach, symtab), "strtable")

WriteStrtable == WriteStep("strtable", StrtableWrites(symtab), "relocations")

WriteRelocations == WriteStep("relocations", RelocationWrites(mach.relocations), "trailer")

\* the trailing NUL, Ok(()), and the drop of the BufWriter on the way out
WriteTrailer ==
  LET w == BufWriter_write(file, 1, sinkBroken)
      d == flush_buf(w.file, sinkBroken)
  IN  /\ pc = "trailer"
      /\ file' = d.file
      /\ pc' = "returned"
      /\ sinkFailed' = (~w.ok \/ ~d.ok)
      /\ result' = IF w.ok THEN "Ok" ELSE "Err"
      /\ UNCHANGED <<artifactVars, symtab, mach, lc, debug, sinkBroken, callVars>>

\* the sink starts to fail
SinkBreaks ==
  /\ pc \in {"header", "loadcmds", "code", "data", "symtable", "strtable",
             "relocations", "trailer"}
  /\ ~sinkBroken
  /\ sinkBroken' = TRUE
  /\ UNCHANGED <<artifactVars, pc, symtab, mach, writeVars, callVars>>

\* to_bytes: the sink is a Cursor over a Vec, which takes every write
Next ==
  \/ Define
  \/ Import
  \/ AddLink
  \/ MachNew
  \/ WriteBegin
  \/ WriteHeader
  \/ WriteLoadCommands
  \/ WriteCode
  \/ WriteData
  \/ WriteSymtable
  \/ WriteStrtable
  \/ WriteRelocations
  \/ WriteTrailer

Spec == Init /\ [][Next]_vars

\* write over a sink that can fail, with debug logging on or off
SetLogLevel ==
  /\ pc = "artifact" /\ definitions = <<>> /\ imports = <<>> /\ links = <<>>
  /\ ~debug
  /\ debug' = TRUE
  /\ UNCHANGED <<artifactVars, pc, symtab, mach, lc, file, sinkBroken, sinkFailed,
                 result, callVars>>

FaultyNext == Next \/ SetLogLevel \/ SinkBreaks

FaultySpec == Init /\ [][FaultyNext]_vars

\* Mach::new alone: an artifact is built and handed to Mach::new
MachNewNext == Define \/ Import \/ AddLink \/ MachNew

MachNewSpec == Init /\ [][MachNewNext]_vars

\* the position of the stream: what the sink took and what the BufWriter holds
Pos == file.sink + file.buf

\* ---------------------------------------------------------------- claims
\* the builder stored for a name that has a symbol
BuilderOf(st, n) == st.symbols[OMPos(st.symbols, StrGet(st.strtable, n))].value

\* the text and data section headers among the load commands
TextHeader == lc.sections[1]
DataHeader == lc.sections[2]

PayloadTotal == SumSeq([i \in 1..Len(definitions) |-> definitions[i].data])
NRelocs == SumSeq([i \in 1..Len(mach.relocations) |-> Len(mach.relocations[i])])

\* bits lo .. lo+n-1 of a word
Bits(x, lo, n) == (x \div (2 ^ lo)) % (2 ^ n)

\* both ends of the link have a symbol
LinkResolves(link) ==
  link.from \in SymbolNames(symtab) /\ link.to \in SymbolNames(symtab)

ResolvedLinks == SelectSeq(links, LinkResolves)

\* C1: while write runs, the position of the stream when a region starts is the
\* offset the load commands record for it: the text and data section offsets,
\* symoff, stroff and the text section's reloff.
C1_RegionStarts ==
  /\ pc = "code" => Pos = TextHeader.offset
  /\ pc = "data" => Pos = DataHeader.offset
  /\ pc = "symtable" => Pos = lc.symoff
  /\ pc = "strtable" => Pos = lc.stroff
  /\ pc = "relocations" => Pos = TextHeader.reloff

\* C1 witness: the relocations are about to be written for an artifact with a
\* repeated name, code and data bytes, two symbols and a relocation
C1_Witness ==
  /\ pc = "relocations"
  /\ Len(definitions) = 2 /\ definitions[1].name = definitions[2].name
  /\ TextHeader.size > 0 /\ DataHeader.size > 0
  /\ SymbolTable_len(symtab) = 2
  /\ TextHeader.nreloc = 1

\* C2: after any sequence of insert calls, sizeof_strtable() is 1 + the sum of
\* len(name) + 2 over the distinct names handed to insert, and it is the number
\* of bytes the string-table step of write emits.
C2_StrtableSize ==
  /\ sizeof_strtable(symtab) = 1 + SumSeq([i \in 1..Len(seen) |-> Len(seen[i]) + 2])
  /\ sizeof_strtable(symtab) = Len(StrtabBytes(symtab))

\* C3: every symbol's n_strx is below strtable_size, the serialized string table
\* holds '_', the symbol's own name and a NUL from n_strx on, and no two symbols
\* share an n_strx.
C3_StrxPointsAtName ==
  LET bytes == StrtabBytes(symtab)
      nl    == NlistSeq(symtab)
  IN  /\ \A n \in SymbolNames(symtab) :
            LET x == nl[SymbolTable_index(symtab, n) + 1].n_strx
            IN  /\ x < sizeof_strtable(symtab)
                /\ x + Len(n) + 2 <= Len(bytes)
                /\ bytes[x + 1] = 95
                /\ SubSeq(bytes, x + 2, x + 1 + Len(n)) = n
                /\ bytes[x + 2 + Len(n)] = 0
      /\ \A i, j \in 1..Len(nl) : i # j => nl[i].n_strx # nl[j].n_strx

\* C3 witness: two symbols, the second one's name starting past the first's
C3_Witness ==
  /\ Len(symtab.symbols) >= 2
  /\ lastCall.calls = 1
  /\ NlistSeq(symtab)[2].n_strx > 1

\* C4: an insert of a name that already has a symbol leaves len(),
\* sizeof_strtable(), index(n) and offset(n) of every name and the stored
\* builders unchanged, whatever kind it is called with.
C4_ReinsertIgnored ==
  [][ lastCall'.known =>
        /\ SymbolTable_len(symtab') = SymbolTable_len(symtab)
        /\ sizeof_strtable(symtab') = sizeof_strtable(symtab)
        /\ \A n \in Names :
              /\ SymbolTable_index(symtab', n) = SymbolTable_index(symtab, n)
              /\ SymbolTable_offset(symtab', n) = SymbolTable_offset(symtab, n)
        /\ SymbolNames(symtab') = SymbolNames(symtab)
        /\ \A n \in SymbolNames(symtab) : BuilderOf(symtab', n) = BuilderOf(symtab, n)
        /\ StrtabBytes(symtab') = StrtabBytes(symtab) ]_vars

\* C4 witness: a name stored as a definition was inserted again as an import
C4_Witness ==
  /\ lastCall.known
  /\ lastCall.kind = Undefined
  /\ lastCall.name \in SymbolNames(symtab)
  /\ ~BuilderOf(symtab, lastCall.name).import

\* C5: symbols and indexes have the same length and keys, the ordinals are
\* 0..n-1, and index(name) of every name handed to insert is the number of
\* distinct names first inserted before it, the position of its Nlist.
C5_DenseOrdinals ==
  LET n == Len(symtab.symbols)
  IN  /\ Len(symtab.indexes) = n
      /\ {symtab.indexes[i].key : i \in 1..n} = {symtab.symbols[i].key : i \in 1..n}
      /\ {symtab.indexes[i].value : i \in 1..n} = 0..(n - 1)
      /\ \A i \in 1..Len(seen) :
            /\ SymbolTable_index(symtab, seen[i]) = i - 1
            /\ i <= n
            /\ symtab.strtable[symtab.symbols[i].key + 1] = seen[i]


\* C6: every record of build_relocations decodes to the fields of its link:
\* r_symbolnum is index(link.to) and below len(), r_pcrel 1, r_length 2,
\* r_extern 1, r_type by the declaration kind, r_address offset(link.from) + at.
C6_RelocationFields ==
  pc # "artifact" =>
    /\ Len(mach.relocations[1]) = Len(ResolvedLinks)
    /\ \A k \in 1..Len(ResolvedLinks) :
          LET link == ResolvedLinks[k]
              r    == mach.relocations[1][k]
              num  == Bits(r.r_info, 0, 24)
          IN  /\ num = SymbolTable_index(symtab, link.to)
              /\ num < SymbolTable_len(symtab)
              /\ symtab.strtable[symtab.symbols[num + 1].key + 1] = link.to
              /\ Bits(r.r_info, 24, 1) = 1
              /\ Bits(r.r_info, 25, 2) = 2
              /\ Bits(r.r_info, 27, 1) = 1
              /\ Bits(r.r_info, 28, 4) =
                    (IF link.decl \in {"Function", "FunctionImport"} THEN 2
                     ELSE IF link.decl \in {"Data", "CString"} THEN 1
                     ELSE 3)
              /\ r.r_address = SymbolTable_offset(symtab, link.from) + link.at

\* C6 witness: a GOT_LOAD record against the second symbol, past offset 0
C6_Witness ==
  /\ pc = "new"
  /\ \E k \in 1..Len(mach.relocations[1]) :
        /\ Bits(mach.relocations[1][k].r_info, 28, 4) = 3
        /\ Bits(mach.relocations[1][k].r_info, 0, 24) = 1
        /\ mach.relocations[1][k].r_address > 0

\* C7: a link with an end that has no symbol yields no record and does not
\* stop emission: the text bucket holds one record per link with both ends in
\* the table, in link order, nreloc is that count, and the file is complete.
C7_MissingSymbolSkipped ==
  LET n == Cardinality({k \in 1..Len(links) : LinkResolves(links[k])})
  IN  /\ pc # "artifact" =>
            /\ Len(mach.relocations) = 1
            /\ Len(mach.relocations[1]) = n
            /\ [k \in 1..n |-> <<mach.relocations[1][k].r_address,
                                 Bits(mach.relocations[1][k].r_info, 0, 24)>>]
                 = [k \in 1..Len(ResolvedLinks) |->
                      <<BuilderOf(symtab, ResolvedLinks[k].from).offset
                          + ResolvedLinks[k].at,
                        SymbolTable_index(symtab, ResolvedLinks[k].to)>>]
      /\ pc \notin {"artifact", "new"} =>
            /\ pc # "panicked"
            /\ TextHeader.nreloc = n
            /\ DataHeader.nreloc = 0
      /\ pc = "returned" =>
            /\ result = "Ok"
            /\ file.sink = TextHeader.reloff + n * SIZEOF_RELOCATION_INFO + 1

\* C7 witness: the file is out, the first link was dropped (its target has no
\* symbol) and the second one kept
C7_Witness ==
  /\ pc = "returned"
  /\ Len(links) = 2
  /\ links[1].from \in SymbolNames(symtab) /\ links[1].to \notin SymbolNames(symtab)
  /\ LinkResolves(links[2])
  /\ Len(mach.relocations[1]) = 1

\* C8: over a sink that can fail, a failed write to the sink makes write return
\* an error, and when write returns Ok every byte of the file is in the sink.
C8_SinkFailurePropagates ==
  pc = "returned" =>
    /\ sinkFailed => result = "Err"
    /\ result = "Ok" => file.sink = TextHeader.reloff + NRelocs * SIZEOF_RELOCATION_INFO + 1

\* C9: the length of the vector to_bytes returns is relocation_offset_start +
\* 8 * nrelocs + 1, relocation_offset_start being the header, the load
\* commands, the payloads, the Nlists and the string table; the empty artifact
\* gives header + segment command + 24 + 1 + 1.
C9_OutputLength ==
  pc = "returned" =>
    LET sizeof_load_commands == load_command_size(mach.ctx) + SIZEOF_SYMTAB_COMMAND
        relocation_offset_start ==
          Header_size_with(mach.ctx) + sizeof_load_commands + PayloadTotal
            + SymbolTable_len(symtab) * Nlist_size_with(mach.ctx)
            + sizeof_strtable(symtab)
    IN  /\ result = "Ok"
        /\ file.buf = 0
        /\ file.sink = relocation_offset_start + 8 * NRelocs + 1
        /\ (definitions = <<>> /\ imports = <<>> /\ links = <<>>) =>
              file.sink = Header_size_with(mach.ctx) + load_command_size(mach.ctx)
                            + 24 + 1 + 1

\* C9 witness: a returned file with payload bytes, symbols and a relocation
C9_Witness ==
  /\ pc = "returned" /\ result = "Ok"
  /\ PayloadTotal > 0
  /\ SymbolTable_len(symtab) = 2
  /\ NRelocs = 1
  /\ Len(definitions) > SymbolTable_len(symtab) - Len(imports)

\* the first definition with a name, in code-then-data order
DefinitionsInOrder == mach.code \o mach.data
FirstNamed(n) ==
  DefinitionsInOrder[CHOOSE i \in 1..Len(DefinitionsInOrder) :
                       /\ DefinitionsInOrder[i].name = n
                       /\ \A j \in 1..(i - 1) : DefinitionsInOrder[j].name # n]

\* C10: a record listed under a section header, whose link has `at` inside the
\* payload of the definition named by link.from, has r_address + section.offset
\* inside that section's data, and that section holds the payload of link.from.
C10_RelocationInsideSection ==
  pc \notin {"artifact", "new", "panicked"} =>
    \A k \in 1..Len(ResolvedLinks) :
      LET link == ResolvedLinks[k]
          r    == mach.relocations[1][k]
      IN  (/\ \E i \in 1..Len(DefinitionsInOrder) : DefinitionsInOrder[i].name = link.from
           /\ link.at < FirstNamed(link.from).data)
          => /\ TextHeader.offset <= r.r_address + TextHeader.offset
             /\ r.r_address + TextHeader.offset < TextHeader.offset + TextHeader.size
             /\ FirstNamed(link.from).prop.function

\* the payload bytes of the definitions before the i-th, in code-then-data order
PayloadBefore(i) == SumSeq([j \in 1..(i - 1) |-> DefinitionsInOrder[j].data])

\* the i-th definition is the first one with its name, in code-then-data order
IsFirstNamed(i) ==
  \A j \in 1..(i - 1) : DefinitionsInOrder[j].name # DefinitionsInOrder[i].name

\* the file position at which write puts the first byte of the i-th payload:
\* the payloads of a section are written one after another from its offset
PayloadPos(i) ==
  LET sections == Mach_layout(mach, symtab).sections
      ncode    == Len(mach.code)
  IN  IF i <= ncode
      THEN sections[1].offset + SumSeq([j \in 1..(i - 1) |-> mach.code[j].data])
      ELSE sections[2].offset
             + SumSeq([j \in 1..(i - ncode - 1) |-> mach.data[j].data])

\* what C11 says of the i-th definition
OffsetIsPayloadBefore(i) ==
  LET name == DefinitionsInOrder[i].name
  IN  /\ SymbolTable_offset(symtab, name) = PayloadBefore(i)
      /\ name \in SymbolNames(symtab)
      /\ SymbolBuilder_create(BuilderOf(symtab, name)).n_value = PayloadBefore(i)
      /\ Mach_layout(mach, symtab).fileoff + PayloadBefore(i) = PayloadPos(i)

\* C11: for every definition that is the first with its name in code-then-data
\* order, the offset recorded for its symbol, and its n_value, is the sum of the
\* payload lengths of the definitions before it in that order (those whose
\* insert was ignored included), and first_section_offset + n_value is the file
\* position of the first byte of its payload.
C11_SymbolOffsets ==
  pc # "artifact" =>
    \A i \in 1..Len(DefinitionsInOrder) : IsFirstNamed(i) => OffsetIsPayloadBefore(i)

\* the name of the k-th symbol of the table
SymbolName(k) == symtab.strtable[symtab.symbols[k].key + 1]

IsDefined(n) == \E i \in 1..Len(DefinitionsInOrder) : DefinitionsInOrder[i].name = n

NonEmptySeen == SelectSeq(seen, LAMBDA n : n # <<>>)

\* With the empty name left out, strtable_size is 1 + the sum of (len + 2)
\* over the distinct names inserted, and is the length of the bytes the
\* string-table step writes.
StrtableSizeOverNonEmptyNames ==
  /\ sizeof_strtable(symtab)
       = 1 + SumSeq([i \in 1..Len(NonEmptySeen) |-> Len(NonEmptySeen[i]) + 2])
  /\ sizeof_strtable(symtab) = Len(StrtabBytes(symtab))

\* With the empty name left out, symbols and indexes agree, the ordinals are
\* dense, and index(name) is the rank of the name's first insertion and the
\* position of its entry in symbols.
OrdinalsOverNonEmptyNames ==
  LET n == Len(symtab.symbols)
  IN  /\ Len(symtab.indexes) = n
      /\ {symtab.indexes[i].key : i \in 1..n} = {symtab.symbols[i].key : i \in 1..n}
      /\ {symtab.indexes[i].value : i \in 1..n} = 0..(n - 1)
      /\ Len(NonEmptySeen) = n
      /\ \A i \in 1..n :
            /\ SymbolTable_index(symtab, NonEmptySeen[i]) = i - 1
            /\ symtab.strtable[symtab.symbols[i].key + 1] = NonEmptySeen[i]

\* With the empty name left out, the offset of the first definition of a name
\* is the payload before it, and locates its payload in the file.
SymbolOffsetsOverNonEmptyNames ==
  pc # "artifact" =>
    \A i \in 1..Len(DefinitionsInOrder) :
      (IsFirstNamed(i) /\ DefinitionsInOrder[i].name # <<>>) => OffsetIsPayloadBefore(i)

====
